---- MODULE Spec2Model ----
(***************************************************************************)
(* DenoisingModel (codes/config/deraining/models/denoising_model.py): the  *)
(* training / inference orchestrator around a score network and an SDE     *)
(* object supplied by the caller.  One action per public method; every     *)
(* method body is executed statement by statement by Run, so an exception  *)
(* raised part-way leaves exactly the assignments made before it.          *)
(***************************************************************************)
EXTENDS Integers, Sequences, FiniteSets, TLC

\* ---------------------------------------------------------------- bounds
MaxPixel == 1
MaxSteps == 2
MaxLossFn == 1

\* ---------------------------------------------------------------- values
\* An attribute that may not exist yet: <<>> is "no such attribute / None".
None == <<>>
Some(v) == <<v>>
IsSet(o) == o # <<>>
Val(o) == o[1]

Pixel == 0 .. MaxPixel
\* a batch of two items; the second item is no first item of any batch
Data == { <<p, p + MaxPixel + 1>> : p \in Pixel }
Devices == {"cuda"}
Tensor(d, dev) == [data |-> d, device |-> dev]
\* tensors as a data loader hands them over: on the host
HostTensors == { Tensor(d, "cpu") : d \in Data }

\* tensor.to(device)
To(t, dev) == [t EXCEPT !.device = dev]
\* tensor.detach()[0].float().cpu(): first item of the batch, on the host
FirstItemCpu(t) == [item |-> Head(t.data), device |-> "cpu"]

LrSchemes == {"MultiStepLR", "CosineAnnealingLR_Restart", "StepLR"}
Weights == {2}
\* opt as passed to the constructor
Opts == [is_train : BOOLEAN, lr_scheme : LrSchemes, weight : Weights, device : Devices]
\* what the object keeps of it for its methods: self.is_train, self.weight, self.device
Kept(o) == [is_train |-> o.is_train, weight |-> o.weight, device |-> o.device]

\* ---------------------------------------------------------------- state
VARIABLES
    phase,          \* "new" | "ready" | "failed" (constructor raised)
    opt,            \* self.is_train, self.weight, self.device
    mode,           \* self.model.training: "train" | "eval"
    grad_enabled,   \* torch.is_grad_enabled()
    state,          \* self.state
    condition,      \* self.condition
    state_0,        \* self.state_0
    output,         \* self.output
    optimizer,      \* self.optimizer: [steps, grads], or None when not built
    log_dict,       \* self.log_dict: function from metric name to scalar
    sde_mu,         \* the SDE object's conditioning mean
    fed,            \* arguments of the most recent feed_data call
    okOpt,          \* number of optimize_parameters calls that returned
    last            \* record of the most recent call

vars == <<phase, opt, mode, grad_enabled, state, condition, state_0, output,
          optimizer, log_dict, sde_mu, fed, okOpt, last>>

NoCall == [op |-> "none", err |-> "none", trace |-> <<>>, ext |-> "none",
           sampler |-> None, ret |-> None, flag |-> FALSE, ode |-> FALSE,
           save |-> FALSE, loss |-> None, pre |-> "train", scheme |-> "none"]

\* ---------------------------------------------------------------- __init__
SchedulerNeverRaises(o) == FALSE

\* lines 44, 74-98: the scheme is looked at only under `if self.is_train`
SchedulerRaises(o) ==
    /\ o.is_train
    /\ o.lr_scheme # "MultiStepLR"
    /\ o.lr_scheme # "CosineAnnealingLR_Restart"

Construct ==
    /\ phase = "new"
    /\ \E o \in Opts :
        /\ opt' = Kept(o)
        /\ IF SchedulerRaises(o)
           THEN /\ phase' = "failed"
                /\ last' = [NoCall EXCEPT !.op = "__init__", !.err = "NotImplementedError",
                                          !.scheme = o.lr_scheme]
                /\ UNCHANGED <<optimizer, log_dict>>
           ELSE /\ phase' = "ready"
                /\ last' = [NoCall EXCEPT !.op = "__init__", !.scheme = o.lr_scheme]
                /\ optimizer' = IF o.is_train THEN Some([steps |-> 0, grads |-> 0]) ELSE None
                /\ log_dict' = IF o.is_train THEN Some(<<>>) ELSE None
    /\ mode' = "train"
    /\ UNCHANGED <<grad_enabled, state, condition, state_0, output, sde_mu, fed, okOpt>>

Init ==
    /\ phase = "new"
    /\ opt = [is_train |-> FALSE, weight |-> 2, device |-> "cuda"]
    /\ mode = "train"
    /\ grad_enabled = TRUE
    /\ state = None
    /\ condition = None
    /\ state_0 = None
    /\ output = None
    /\ optimizer = None
    /\ log_dict = None
    /\ sde_mu = None
    /\ fed = None
    /\ okOpt = 0
    /\ last = NoCall

\* ---------------------------------------------------------------- feed_data
FeedState0Always(GT, old, dev) == IF IsSet(GT) THEN Some(To(Val(GT), dev)) ELSE None

FeedState0Never(GT, old, dev) == old

\* lines 105-106: self.state_0 is assigned only when GT is given
FeedState0(GT, old, dev) == IF IsSet(GT) THEN Some(To(Val(GT), dev)) ELSE old

feed_data ==
    /\ phase = "ready"
    /\ \E s \in HostTensors, lq \in HostTensors, gt \in {None} \cup { Some(t) : t \in HostTensors } :
        /\ state' = Some(To(s, opt.device))
        /\ condition' = Some(To(lq, opt.device))
        /\ state_0' = FeedState0(gt, state_0, opt.device)
        /\ fed' = Some([state |-> s, LQ |-> lq, GT |-> gt])
        /\ last' = [NoCall EXCEPT !.op = "feed_data", !.flag = IsSet(gt)]
    /\ UNCHANGED <<phase, opt, mode, grad_enabled, output, optimizer, log_dict, sde_mu, okOpt>>

\* ---------------------------------------------------------------- method bodies
\* The SDE object, the loss and autograd are external: any one of these calls
\* may raise, chosen by the caller-side input `ext`.
OptRaisable == {"noise_fn", "reverse_optimum_step", "backward"}
TestRaisable == {"reverse_sde", "reverse_ode"}

\* machine state of one running method: the attributes it can assign, its
\* locals, and the calls it has made so far
Machine ==
    [mu |-> sde_mu, optimizer |-> optimizer, log_dict |-> log_dict, mode |-> mode,
     grad_enabled |-> grad_enabled, grad_prev |-> grad_enabled, in_no_grad |-> FALSE,
     output |-> output, loss |-> None, sampler |-> None, trace |-> <<>>, err |-> "none"]

CanReadNoGT(op, m, env) ==
    CASE op = "set_mu" -> IsSet(env.condition)
      [] op = "zero_grad" -> IsSet(m.optimizer)
      [] op = "noise_fn" -> IsSet(env.state)
      [] op = "reverse_sde_step_mean" -> IsSet(env.state)
      [] op = "reverse_optimum_step" -> IsSet(env.state)
      [] op = "loss_fn" -> env.is_train
      [] op = "backward" -> IsSet(m.loss)
      [] op = "step" -> IsSet(m.optimizer)
      [] op = "log" -> IsSet(m.log_dict) /\ IsSet(m.loss)
      [] op = "reverse_sde" -> IsSet(env.state)
      [] op = "reverse_ode" -> IsSet(env.state)
      [] OTHER -> TRUE

\* the attributes and locals a statement reads exist (else AttributeError at
\* that statement)
CanRead(op, m, env) ==
    CASE op = "set_mu" -> IsSet(env.condition)
      [] op = "zero_grad" -> IsSet(m.optimizer)
      [] op = "noise_fn" -> IsSet(env.state)
      [] op = "reverse_sde_step_mean" -> IsSet(env.state)
      [] op = "reverse_optimum_step" -> IsSet(env.state) /\ IsSet(env.state_0)
      [] op = "loss_fn" -> env.is_train
      [] op = "backward" -> IsSet(m.loss)
      [] op = "step" -> IsSet(m.optimizer)
      [] op = "log" -> IsSet(m.log_dict) /\ IsSet(m.loss)
      [] op = "reverse_sde" -> IsSet(env.state)
      [] op = "reverse_ode" -> IsSet(env.state)
      [] OTHER -> TRUE

\* the call is made: it is recorded, with its arguments where a claim needs them
Invoke(op, m, env) ==
    LET m1 == [m EXCEPT !.trace = Append(@, op)] IN
    IF op \in {"reverse_sde", "reverse_ode"}
    THEN [m1 EXCEPT !.sampler = Some([fn |-> op, x |-> Val(env.state),
                                      save_states |-> env.save, mu |-> m.mu,
                                      mode |-> m.mode, grad |-> m.grad_enabled,
                                      result |-> None])]
    ELSE m1

SetLossKeep(d, v) ==
    [k \in DOMAIN d \cup {"loss"} |-> IF k \in DOMAIN d THEN d[k] ELSE v]

\* line 128: self.log_dict["loss"] = loss.item()
SetLoss(d, v) == [k \in DOMAIN d \cup {"loss"} |-> IF k = "loss" THEN v ELSE d[k]]

\* the statement completes
Effect(op, m, env) ==
    CASE op = "set_mu" -> [m EXCEPT !.mu = env.condition]
      [] op = "zero_grad" -> [m EXCEPT !.optimizer = Some([Val(@) EXCEPT !.grads = 0])]
      [] op = "loss_fn" -> [m EXCEPT !.loss = Some(env.weight * env.loss_fn)]
      [] op = "backward" -> [m EXCEPT !.optimizer = Some([Val(@) EXCEPT !.grads = @ + 1])]
      [] op = "step" -> [m EXCEPT !.optimizer = Some([Val(@) EXCEPT !.steps = @ + 1])]
      [] op = "log" -> [m EXCEPT !.log_dict = Some(SetLoss(Val(@), Val(m.loss)))]
      [] op = "eval" -> [m EXCEPT !.mode = "eval"]
      [] op = "train" -> [m EXCEPT !.mode = "train"]
      [] op = "no_grad_enter" -> [m EXCEPT !.grad_prev = m.grad_enabled,
                                           !.grad_enabled = FALSE, !.in_no_grad = TRUE]
      [] op = "no_grad_exit" -> [m EXCEPT !.grad_enabled = m.grad_prev, !.in_no_grad = FALSE]
      [] op \in {"reverse_sde", "reverse_ode"} ->
            LET r == Tensor(env.sample, Val(env.state).device) IN
            [m EXCEPT !.output = Some(r),
                      !.sampler = Some([Val(@) EXCEPT !.result = Some(r)])]
      [] OTHER -> m

UnwindKeepNoGrad(m, e) == [m EXCEPT !.err = e]

\* an exception leaves the method: a `with torch.no_grad()` block it is in exits
Unwind(m, e) ==
    IF m.in_no_grad
    THEN [m EXCEPT !.err = e, !.grad_enabled = m.grad_prev, !.in_no_grad = FALSE]
    ELSE [m EXCEPT !.err = e]

RECURSIVE Run(_, _, _, _)
Run(prog, i, m, env) ==
    IF i > Len(prog) THEN m
    ELSE LET op == prog[i] IN
         IF ~CanRead(op, m, env) THEN Unwind(m, "AttributeError")
         ELSE IF env.ext = op THEN Unwind(Invoke(op, m, env), "Raised")
         ELSE Run(prog, i + 1, Effect(op, Invoke(op, m, env), env), env)

Env(ext, lossv, sample, save) ==
    [state |-> state, condition |-> condition, state_0 |-> state_0,
     is_train |-> opt.is_train, weight |-> opt.weight,
     ext |-> ext, loss_fn |-> lossv, sample |-> sample, save |-> save]

\* ---------------------------------------------------------------- optimize_parameters
OptimizeProgramZeroLate ==
    <<"set_mu", "noise_fn", "get_score_from_noise", "reverse_sde_step_mean",
      "reverse_optimum_step", "loss_fn", "backward", "zero_grad", "step", "log">>

\* lines 109-128, in statement order
OptimizeProgram ==
    <<"set_mu", "zero_grad", "noise_fn", "get_score_from_noise", "reverse_sde_step_mean",
      "reverse_optimum_step", "loss_fn", "backward", "step", "log">>

optimize_parameters ==
    /\ phase = "ready"
    /\ IsSet(optimizer) => Val(optimizer).steps < MaxSteps
    /\ \E ext \in OptRaisable \cup {"none"}, lossv \in 0 .. MaxLossFn :
        \E m \in {Run(OptimizeProgram, 1, Machine, Env(ext, lossv, <<>>, FALSE))} :
        /\ sde_mu' = m.mu
        /\ optimizer' = m.optimizer
        /\ log_dict' = m.log_dict
        /\ okOpt' = IF m.err = "none" THEN okOpt + 1 ELSE okOpt
        /\ last' = [NoCall EXCEPT !.op = "optimize_parameters", !.err = m.err,
                                  !.trace = m.trace,
                                  !.ext = IF m.err = "Raised" THEN ext ELSE "none",
                                  !.loss = m.loss]
    /\ UNCHANGED <<phase, opt, mode, grad_enabled, state, condition, state_0, output, fed>>

\* ---------------------------------------------------------------- test
ReverseFnSwapped(perform_ode) == IF perform_ode THEN "reverse_sde" ELSE "reverse_ode"

\* lines 135-140: `if not perform_ode` picks the stochastic sampler
ReverseFn(perform_ode) == IF ~perform_ode THEN "reverse_sde" ELSE "reverse_ode"

TestProgramNoRestore(perform_ode) ==
    <<"set_mu", "eval", "no_grad_enter", ReverseFn(perform_ode), "no_grad_exit">>

\* lines 131-142, in statement order
TestProgram(perform_ode) ==
    <<"set_mu", "eval", "no_grad_enter", ReverseFn(perform_ode), "no_grad_exit", "train">>

test ==
    /\ phase = "ready"
    /\ \E perform_ode \in BOOLEAN, save_states \in BOOLEAN, sample \in Data :
       \E ext \in {"none"} \cup (TestRaisable \cap {ReverseFn(perform_ode)}) :
        \E m \in {Run(TestProgram(perform_ode), 1, Machine, Env(ext, 0, sample, save_states))} :
        /\ sde_mu' = m.mu
        /\ mode' = m.mode
        /\ grad_enabled' = m.grad_enabled
        /\ output' = m.output
        /\ last' = [NoCall EXCEPT !.op = "test", !.err = m.err, !.trace = m.trace,
                                  !.ext = IF m.err = "Raised" THEN ext ELSE "none",
                                  !.sampler = m.sampler, !.ode = perform_ode,
                                  !.save = save_states, !.pre = mode]
    /\ UNCHANGED <<phase, opt, state, condition, state_0, optimizer, log_dict, fed, okOpt>>

\* ---------------------------------------------------------------- accessors
\* line 145: the stored dict itself
get_current_log ==
    /\ phase = "ready"
    /\ last' = IF IsSet(log_dict)
               THEN [NoCall EXCEPT !.op = "get_current_log", !.ret = log_dict]
               ELSE [NoCall EXCEPT !.op = "get_current_log", !.err = "AttributeError"]
    /\ UNCHANGED <<phase, opt, mode, grad_enabled, state, condition, state_0, output,
                   optimizer, log_dict, sde_mu, fed, okOpt>>

VisualKeysAlwaysGT(need_GT) == {"Input", "Output", "GT"}

\* lines 149-152: "GT" is added only under `if need_GT`
VisualKeys(need_GT) == IF need_GT THEN {"Input", "Output", "GT"} ELSE {"Input", "Output"}

\* lines 149-152: where each entry is read from
VisualSource(k) ==
    CASE k = "Input" -> condition
      [] k = "Output" -> output
      [] k = "GT" -> state_0

get_current_visuals ==
    /\ phase = "ready"
    /\ \E need_GT \in BOOLEAN :
        last' = IF \A k \in VisualKeys(need_GT) : IsSet(VisualSource(k))
                THEN [NoCall EXCEPT !.op = "get_current_visuals", !.flag = need_GT,
                        !.ret = Some([k \in VisualKeys(need_GT) |->
                                         FirstItemCpu(Val(VisualSource(k)))])]
                ELSE [NoCall EXCEPT !.op = "get_current_visuals", !.flag = need_GT,
                        !.err = "AttributeError"]
    /\ UNCHANGED <<phase, opt, mode, grad_enabled, state, condition, state_0, output,
                   optimizer, log_dict, sde_mu, fed, okOpt>>

Next ==
    \/ Construct
    \/ feed_data
    \/ optimize_parameters
    \/ test
    \/ get_current_log
    \/ get_current_visuals

Spec == Init /\ [][Next]_vars

\* ---------------------------------------------------------------- properties
\* number of times the last call invoked one of the calls in `names`
Count(names) == Cardinality({ i \in DOMAIN last.trace : last.trace[i] \in names })
\* position of the (first) call of `name` in the last call's trace, 0 if absent
Pos(name) ==
    IF \E i \in DOMAIN last.trace : last.trace[i] = name
    THEN CHOOSE i \in DOMAIN last.trace :
            /\ last.trace[i] = name
            /\ \A j \in DOMAIN last.trace : last.trace[j] = name => i <= j
    ELSE 0
Samplers == {"reverse_sde", "reverse_ode"}
OnDevice(t) == [data |-> t.data, device |-> opt.device]

\* C1: a test call that returns leaves the model in "train" mode, whichever
\* sampler it used and whatever the mode was before; the sampler itself ran
\* with the model in "eval" mode.
C1_TrainModeAfterTest ==
    (last.op = "test" /\ last.err = "none") =>
        /\ mode = "train"
        /\ IsSet(last.sampler)
        /\ Val(last.sampler).mode = "eval"

C1_Witness ==
    /\ last.op = "test"
    /\ last.err = "none"
    /\ last.pre = "eval"
    /\ last.ode

\* C2: a test call on an orchestrator that has been fed data invokes exactly
\* one reverse sampler, once: reverse_ode iff perform_ode, reverse_sde iff not;
\* the sampler gets the stored state and the caller's save_states, and what it
\* returns is the stored output.
C2_OneSamplerPerTest ==
    (last.op = "test" /\ IsSet(fed)) =>
        /\ Count(Samplers) = 1
        /\ Count({"reverse_ode"}) = (IF last.ode THEN 1 ELSE 0)
        /\ Count({"reverse_sde"}) = (IF last.ode THEN 0 ELSE 1)
        /\ IsSet(last.sampler)
        /\ Val(last.sampler).fn = (IF last.ode THEN "reverse_ode" ELSE "reverse_sde")
        /\ Some(Val(last.sampler).x) = state
        /\ Val(last.sampler).save_states = last.save
        /\ last.err = "none" => /\ IsSet(Val(last.sampler).result)
                                /\ output = Val(last.sampler).result

C2_Witness ==
    /\ last.op = "test"
    /\ last.err = "none"
    /\ last.ode
    /\ last.save
    /\ Count({"reverse_ode"}) = 1

\* C3 (as claimed): any construction with an unsupported scheme string raises.
C3_Original ==
    (last.op = "__init__" /\ last.scheme \notin {"MultiStepLR", "CosineAnnealingLR_Restart"})
        => (last.err = "NotImplementedError" /\ phase = "failed")

\* C3 (amended): construction raises NotImplementedError exactly when is_train
\* is set and the scheme is neither of the two supported names; an object built
\* without is_train has no optimizer and never completes an optimizer step, so
\* no optimizer step is ever performed under an unsupported scheme.
C3_SchemeCheckedWhenTraining ==
    /\ last.op = "__init__" =>
        /\ (last.err = "NotImplementedError") <=>
              (phase = "failed" /\ opt.is_train
                 /\ last.scheme \notin {"MultiStepLR", "CosineAnnealingLR_Restart"})
        /\ last.err = "none" <=> phase = "ready"
        /\ (phase = "ready" /\ last.scheme \notin {"MultiStepLR", "CosineAnnealingLR_Restart"})
              => (~opt.is_train /\ ~IsSet(optimizer))
    /\ phase = "failed" => (~IsSet(optimizer) /\ okOpt = 0)
    /\ (phase = "ready" /\ ~opt.is_train) => (~IsSet(optimizer) /\ okOpt = 0)

C3_Witness ==
    /\ phase = "failed"
    /\ last.err = "NotImplementedError"
    /\ last.scheme = "StepLR"

\* C4: get_current_visuals returns exactly {"Input", "Output"} without need_GT
\* and exactly {"Input", "Output", "GT"} with it; it succeeds once data is fed
\* and a test has stored an output (and, with need_GT, ground truth is stored);
\* the entries are the first batch item, on the host, of the stored condition,
\* output and ground truth.
C4_VisualKeys ==
    /\ (last.op = "get_current_visuals" /\ IsSet(fed) /\ IsSet(output)
          /\ (last.flag => IsSet(state_0))) => last.err = "none"
    /\ (last.op = "get_current_visuals" /\ last.err = "none") =>
        LET d == Val(last.ret) IN
        /\ DOMAIN d = (IF last.flag THEN {"Input", "Output", "GT"} ELSE {"Input", "Output"})
        /\ d["Input"] = [item |-> Val(condition).data[1], device |-> "cpu"]
        /\ d["Output"] = [item |-> Val(output).data[1], device |-> "cpu"]
        /\ last.flag => d["GT"] = [item |-> Val(state_0).data[1], device |-> "cpu"]

C4_Witness ==
    /\ last.op = "get_current_visuals"
    /\ last.err = "none"
    /\ ~last.flag
    /\ ~IsSet(state_0)
    /\ Val(condition).data # Val(state).data
    /\ Val(output).data # Val(condition).data

\* C5 (as claimed): after a feed_data call without ground truth no ground truth
\* is stored.
C5_Original ==
    (IsSet(fed) /\ ~IsSet(Val(fed).GT)) => ~IsSet(state_0)

\* C5 (amended): every feed_data call overwrites the stored state and
\* condition, which are always those of the most recent call; the stored
\* ground truth is overwritten only by a call that supplies one, and a call
\* without ground truth leaves the stored one as it was.
C5_FeedOverwrites ==
    /\ [](IsSet(fed) =>
            /\ state = Some(OnDevice(Val(fed).state))
            /\ condition = Some(OnDevice(Val(fed).LQ))
            /\ IsSet(Val(fed).GT) => state_0 = Some(OnDevice(Val(Val(fed).GT))))
    /\ [][(last'.op = "feed_data" /\ ~IsSet(Val(fed').GT)) => state_0' = state_0]_vars
    /\ [][last'.op # "feed_data" =>
            (state' = state /\ condition' = condition /\ state_0' = state_0 /\ fed' = fed)]_vars

C5_Witness ==
    /\ last.op = "feed_data"
    /\ ~IsSet(Val(fed).GT)
    /\ IsSet(state_0)
    /\ Val(state_0).data # Val(state).data

\* C6: with no ground truth stored, optimize_parameters fails, the optimizer
\* makes no update and the log dict is not written; test on the same fed data
\* completes (unless the sampler itself raises) and stores the sampler's result.
C6_OptimizeNeedsGT ==
    /\ [][(last'.op = "optimize_parameters" /\ ~IsSet(state_0)) =>
            /\ last'.err # "none"
            /\ okOpt' = okOpt
            /\ log_dict' = log_dict
            /\ IsSet(optimizer) =>
                  (IsSet(optimizer') /\ Val(optimizer').steps = Val(optimizer).steps)
            /\ ~IsSet(optimizer) => ~IsSet(optimizer')]_vars
    /\ []((last.op = "test" /\ ~IsSet(state_0) /\ IsSet(fed) /\ last.ext = "none") =>
            /\ last.err = "none"
            /\ IsSet(output)
            /\ output = Val(last.sampler).result)

C6_Witness ==
    /\ last.op = "optimize_parameters"
    /\ last.err = "AttributeError"
    /\ opt.is_train
    /\ IsSet(fed)
    /\ ~IsSet(state_0)
    /\ IsSet(output)
    /\ Pos("reverse_sde_step_mean") = 5

\* C7: after an optimize_parameters call that returns, the log dict holds under
\* "loss" the loss of that call (an earlier value is replaced) and the call
\* returned nothing; get_current_log returns the log dict and leaves it as is.
C7_LossLogged ==
    /\ []((last.op = "optimize_parameters" /\ last.err = "none") =>
            /\ IsSet(log_dict)
            /\ "loss" \in DOMAIN Val(log_dict)
            /\ IsSet(last.loss)
            /\ Val(log_dict)["loss"] = Val(last.loss)
            /\ ~IsSet(last.ret))
    /\ []((last.op = "get_current_log" /\ last.err = "none") => last.ret = log_dict)
    /\ [][last'.op = "get_current_log" => log_dict' = log_dict]_vars

C7_Witness ==
    /\ last.op = "optimize_parameters"
    /\ last.err = "none"
    /\ okOpt = 2
    /\ Val(log_dict)["loss"] = 0

\* C8: a successful optimize_parameters call makes each of its ten calls once,
\* set_mu before noise and score, zero_grad before backward, backward before
\* the optimizer step, the log write after the step; exactly one backward
\* pass is accumulated at the step; the optimizer state is never reset and its
\* step count equals the number of successful calls.
C8_StepOrder ==
    /\ []((last.op = "optimize_parameters" /\ last.err = "none") =>
            /\ Len(last.trace) = 10
            /\ \A n \in {"set_mu", "zero_grad", "noise_fn", "get_score_from_noise",
                         "reverse_sde_step_mean", "reverse_optimum_step", "loss_fn",
                         "backward", "step", "log"} : Count({n}) = 1
            /\ Pos("set_mu") < Pos("noise_fn")
            /\ Pos("set_mu") < Pos("get_score_from_noise")
            /\ Pos("zero_grad") < Pos("backward")
            /\ Pos("backward") < Pos("step")
            /\ Pos("step") < Pos("log")
            /\ Val(optimizer).grads = 1)
    /\ [](IsSet(optimizer) => Val(optimizer).steps = okOpt)
    /\ [][IsSet(optimizer) =>
            (IsSet(optimizer') /\ Val(optimizer').steps >= Val(optimizer).steps)]_vars

C8_Witness ==
    /\ last.op = "optimize_parameters"
    /\ last.err = "none"
    /\ okOpt = 2
    /\ Val(optimizer).steps = 2

\* C9 (as claimed): once ground truth has been fed, every optimize_parameters
\* and test call succeeds (external calls not raising).
C9_Original ==
    (last.op \in {"optimize_parameters", "test"} /\ IsSet(state_0) /\ last.ext = "none")
        => last.err = "none"

\* C9 (amended): before any feed_data, optimize_parameters and test fail;
\* get_current_visuals fails while no test has stored an output; once ground
\* truth has been fed, every test call succeeds, and every optimize_parameters
\* call succeeds on an orchestrator built with is_train (external calls not
\* raising), each with the most recently fed state and condition; built
\* without is_train, optimize_parameters always fails.
C9_CallOrder ==
    /\ (last.op \in {"optimize_parameters", "test"} /\ ~IsSet(fed)) =>
            (last.err = "AttributeError" /\ last.trace = <<>>)
    /\ (last.op = "get_current_visuals" /\ ~IsSet(output)) => last.err = "AttributeError"
    /\ (last.op = "test" /\ IsSet(fed) /\ last.ext = "none") =>
            /\ last.err = "none"
            /\ Val(last.sampler).x = OnDevice(Val(fed).state)
            /\ Val(last.sampler).mu = Some(OnDevice(Val(fed).LQ))
    /\ (last.op = "optimize_parameters" /\ IsSet(fed) /\ last.ext = "none"
          /\ (IsSet(Val(fed).GT) \/ IsSet(state_0)) /\ opt.is_train) =>
            /\ last.err = "none"
            /\ sde_mu = Some(OnDevice(Val(fed).LQ))
    /\ (last.op = "optimize_parameters" /\ ~opt.is_train) => last.err = "AttributeError"

C9_Witness ==
    /\ last.op = "optimize_parameters"
    /\ last.err = "none"
    /\ IsSet(output)
    /\ ~IsSet(Val(fed).GT)
    /\ okOpt = 2

\* C10: when the sampler raises inside test, gradient tracking is enabled again
\* on exit, the mode stays "eval" and the stored output is unchanged; feed_data
\* and optimize_parameters never change the mode, so they run in "eval" mode
\* after a crashed test.
C10_CrashedTestLeavesEval ==
    /\ []((last.op = "test" /\ last.err = "Raised") =>
            /\ mode = "eval"
            /\ grad_enabled
            /\ Val(last.sampler).grad = FALSE)
    /\ [][(last'.op = "test" /\ last'.err = "Raised") => output' = output]_vars
    /\ [][last'.op \in {"feed_data", "optimize_parameters"} => mode' = mode]_vars
    /\ [](grad_enabled)

C10_Witness ==
    /\ last.op = "optimize_parameters"
    /\ last.err = "none"
    /\ mode = "eval"
====
